---- MODULE Spec2Model ----
(***************************************************************************)
(* Model of crates/config/src/chain.rs: the Chain value type (a named      *)
(* chain or a raw chain id) and its conversions.                           *)
(*                                                                         *)
(* Text is modelled as a sequence of one-character strings, so that case   *)
(* folding, numeral parsing and numeral printing are computed character by *)
(* character.  u64 is modelled with U64Bits bits and U256 with one bit     *)
(* more, so that the narrowing conversion has out-of-range inputs.         *)
(* NamedChain is the enumeration of ethers_core re-exported at line 7; a   *)
(* representative part of it is modelled.                                  *)
(***************************************************************************)
EXTENDS Integers, Sequences, FiniteSets, TLC

VARIABLES input, call, kept

vars == <<input, call, kept>>

----------------------------------------------------------------------------
(* Bounds of the model *)

\* width of the modelled u64
U64Bits == 6
\* longest digit string given to the parsers
MaxDigits == 2
\* number of leading letters of a name that are re-cased independently
MaxCasePrefix == 3

U64Max == 2^U64Bits - 1
U64 == 0..U64Max
\* U256 values: one bit wider than u64
U256Values == 0..(2^(U64Bits + 1) - 1)

----------------------------------------------------------------------------
(* Result<T, E> and Option<T> *)

Ok(v) == [tag |-> "Ok", val |-> v]
Err(e) == [tag |-> "Err", err |-> e]
Panic(m) == [tag |-> "Panic", msg |-> m]
Some(v) == [tag |-> "Some", val |-> v]
None == [tag |-> "None"]

----------------------------------------------------------------------------
(* Characters and strings *)

LowerLetters == <<"a","b","c","d","e","f","g","h","i","j","k","l","m",
                  "n","o","p","q","r","s","t","u","v","w","x","y","z">>
UpperLetters == <<"A","B","C","D","E","F","G","H","I","J","K","L","M",
                  "N","O","P","Q","R","S","T","U","V","W","X","Y","Z">>
DigitChars == <<"0","1","2","3","4","5","6","7","8","9">>
Digits == {DigitChars[i] : i \in 1..10}

\* char::to_digit(10)
to_digit(c) == (CHOOSE i \in 1..10 : DigitChars[i] = c) - 1

char_to_lowercase(c) ==
    IF \E i \in 1..26 : UpperLetters[i] = c
    THEN LowerLetters[CHOOSE i \in 1..26 : UpperLetters[i] = c]
    ELSE c

char_to_uppercase(c) ==
    IF \E i \in 1..26 : LowerLetters[i] = c
    THEN UpperLetters[CHOOSE i \in 1..26 : LowerLetters[i] = c]
    ELSE c

\* str::to_lowercase
to_lowercase(s) == [i \in 1..Len(s) |-> char_to_lowercase(s[i])]

\* u64 Display: the decimal numeral of n, without sign or leading zeros
RECURSIVE u64_fmt(_)
u64_fmt(n) ==
    IF n < 10 THEN <<DigitChars[n + 1]>>
    ELSE u64_fmt(n \div 10) \o <<DigitChars[(n % 10) + 1]>>

\* the digit loop of <u64 as FromStr>::from_str: checked multiply and add
RECURSIVE parse_digits(_, _, _)
parse_digits(s, i, acc) ==
    IF i > Len(s) THEN Ok(acc)
    ELSE IF s[i] \notin Digits THEN Err("InvalidDigit")
    ELSE IF acc * 10 + to_digit(s[i]) > U64Max THEN Err("PosOverflow")
    ELSE parse_digits(s, i + 1, acc * 10 + to_digit(s[i]))

\* str::parse::<u64>: a leading "+" is accepted, a leading "-" is not
parse_u64(s) ==
    IF Len(s) = 0 THEN Err("Empty")
    ELSE IF Len(s) = 1 /\ s[1] \in {"+", "-"} THEN Err("InvalidDigit")
    ELSE IF s[1] = "+" THEN parse_digits(s, 2, 0)
    ELSE parse_digits(s, 1, 0)

----------------------------------------------------------------------------
(* NamedChain: the registry of well-known chains (ethers_core Chain) *)

NamedChains == {"Mainnet", "Morden", "BinanceSmartChain"}

\* `chain as u64`: the discriminant
as_u64(chain) ==
    CASE chain = "Mainnet" -> 1
      [] chain = "Morden" -> 2
      [] chain = "BinanceSmartChain" -> 56

\* NamedChain::try_from(id)
NamedChain_try_from(id) ==
    IF \E c \in NamedChains : as_u64(c) = id
    THEN Ok(CHOOSE c \in NamedChains : as_u64(c) = id)
    ELSE Err("TryFromPrimitiveError")

\* NamedChain as Display: the kebab-case name
NamedChain_fmt(chain) ==
    CASE chain = "Mainnet" -> <<"m","a","i","n","n","e","t">>
      [] chain = "Morden" -> <<"m","o","r","d","e","n">>
      [] chain = "BinanceSmartChain" -> <<"b","s","c">>

\* the additional names NamedChain::from_str accepts
NamedChain_aliases(chain) ==
    CASE chain = "Mainnet" -> {<<"e","t","h","l","i","v","e">>}
      [] chain = "Morden" -> {}
      [] chain = "BinanceSmartChain" -> {}

NamedChain_names(chain) == {NamedChain_fmt(chain)} \cup NamedChain_aliases(chain)

\* NamedChain::from_str: an exact, case-sensitive match of a name
NamedChain_from_str(s) ==
    IF \E c \in NamedChains : s \in NamedChain_names(c)
    THEN Ok(CHOOSE c \in NamedChains : s \in NamedChain_names(c))
    ELSE Err("VariantNotFound")

NamedChain_is_legacy(chain) == chain = "BinanceSmartChain"

NamedChain_etherscan_urls(chain) ==
    CASE chain = "Mainnet" -> Some(<<"api.etherscan.io", "etherscan.io">>)
      [] chain = "Morden" -> None
      [] chain = "BinanceSmartChain" -> Some(<<"api.bscscan.com", "bscscan.com">>)

----------------------------------------------------------------------------
(* Chain *)

Named(chain) == [tag |-> "Named", chain |-> chain]
Id(id) == [tag |-> "Id", id |-> id]

ChainValues == {Named(c) : c \in NamedChains} \cup {Id(i) : i \in U64}

\* derive(PartialEq): structural equality
eq(a, b) == a = b

\* Chain::id
id(c) == IF c.tag = "Named" THEN as_u64(c.chain) ELSE c.id

\* Chain::named
named(c) ==
    IF c.tag = "Named" THEN Ok(c.chain)
    ELSE IF NamedChain_try_from(c.id).tag = "Ok"
         THEN Ok(NamedChain_try_from(c.id).val)
         ELSE Err([kind |-> "UnsupportedChain", id |-> c.id])

is_legacy_DefaultTrue(c) ==
    IF named(c).tag = "Ok" THEN NamedChain_is_legacy(named(c).val) ELSE TRUE

\* Chain::is_legacy
is_legacy(c) ==
    IF named(c).tag = "Ok" THEN NamedChain_is_legacy(named(c).val) ELSE FALSE

\* Chain::etherscan_urls
etherscan_urls(c) ==
    IF named(c).tag = "Ok" THEN NamedChain_etherscan_urls(named(c).val) ELSE None

fmt_NoLookup(c) ==
    IF c.tag = "Named" THEN NamedChain_fmt(c.chain) ELSE u64_fmt(c.id)

\* <Chain as Display>::fmt
fmt(c) ==
    IF c.tag = "Named" THEN NamedChain_fmt(c.chain)
    ELSE IF NamedChain_try_from(c.id).tag = "Ok"
         THEN NamedChain_fmt(NamedChain_try_from(c.id).val)
         ELSE u64_fmt(c.id)

\* From<NamedChain> for Chain
from_named(chain) == Named(chain)

\* From<u64> for Chain
from_u64(n) ==
    IF NamedChain_try_from(n).tag = "Ok"
    THEN Named(NamedChain_try_from(n).val)
    ELSE Id(n)

\* Uint::to::<u64>: panics when the value does not fit
to_u64(v) == IF v <= U64Max THEN Ok(v) ELSE Panic("Uint conversion error")

\* From<U256> for Chain
from_u256(v) ==
    IF to_u64(v).tag = "Ok" THEN Ok(from_u64(to_u64(v).val)) ELSE to_u64(v)

\* From<Chain> for u64
into_u64(c) == IF c.tag = "Named" THEN as_u64(c.chain) ELSE c.id

\* From<Chain> for U256
into_u256(c) == into_u64(c)

\* TryFrom<Chain> for NamedChain
try_into_named(c) ==
    IF c.tag = "Named" THEN Ok(c.chain) ELSE NamedChain_try_from(c.id)

from_str_NamesOnly(s) ==
    IF NamedChain_from_str(s).tag = "Ok"
    THEN Ok(Named(NamedChain_from_str(s).val))
    ELSE Err([kind |-> "ExpectedKnownChainOrInteger", found |-> s])

from_str_Unwrap(s) ==
    IF NamedChain_from_str(s).tag = "Ok"
    THEN Ok(Named(NamedChain_from_str(s).val))
    ELSE IF parse_u64(s).tag = "Ok"
         THEN Ok(Id(parse_u64(s).val))
         ELSE Panic("unwrap on Err")

\* <Chain as FromStr>::from_str
from_str(s) ==
    IF NamedChain_from_str(s).tag = "Ok"
    THEN Ok(Named(NamedChain_from_str(s).val))
    ELSE IF parse_u64(s).tag = "Ok"
         THEN Ok(Id(parse_u64(s).val))
         ELSE Err([kind |-> "ExpectedKnownChainOrInteger", found |-> s])

\* Default for Chain
default == from_named("Mainnet")

----------------------------------------------------------------------------
(* Serialized form: an untagged scalar *)

StrValue(s) == [kind |-> "str", s |-> s]
U64Value(n) == [kind |-> "u64", n |-> n]
I64Value(n) == [kind |-> "i64", n |-> n]
BoolValue(b) == [kind |-> "bool", b |-> b]

\* from_str_lowercase::serialize: the lowercased display name
from_str_lowercase_serialize(chain) == StrValue(to_lowercase(NamedChain_fmt(chain)))

serialize_AsDisplay(c) ==
    IF c.tag = "Named" THEN from_str_lowercase_serialize(c.chain)
    ELSE StrValue(u64_fmt(c.id))

\* derive(Serialize), untagged
serialize(c) ==
    IF c.tag = "Named" THEN from_str_lowercase_serialize(c.chain)
    ELSE U64Value(c.id)

\* the untagged helper enum ChainId of deserialize: a string, else a u64
ChainId_deserialize(v) ==
    CASE v.kind = "str" -> Ok([tag |-> "Named", s |-> v.s])
      [] v.kind = "u64" -> Ok([tag |-> "Id", id |-> v.n])
      [] OTHER -> Err([kind |-> "NoUntaggedVariantMatched"])

deserialize_RejectUnknown(v) ==
    IF ChainId_deserialize(v).tag = "Err" THEN ChainId_deserialize(v)
    ELSE IF ChainId_deserialize(v).val.tag = "Named"
    THEN IF NamedChain_from_str(to_lowercase(ChainId_deserialize(v).val.s)).tag = "Ok"
         THEN Ok(Named(NamedChain_from_str(to_lowercase(ChainId_deserialize(v).val.s)).val))
         ELSE Err([kind |-> "Custom", msg |-> "VariantNotFound"])
    ELSE IF NamedChain_try_from(ChainId_deserialize(v).val.id).tag = "Ok"
         THEN Ok(Named(NamedChain_try_from(ChainId_deserialize(v).val.id).val))
         ELSE Err([kind |-> "Custom", msg |-> "TryFromPrimitiveError"])

\* <Chain as Deserialize>::deserialize
deserialize(v) ==
    IF ChainId_deserialize(v).tag = "Err" THEN ChainId_deserialize(v)
    ELSE IF ChainId_deserialize(v).val.tag = "Named"
    THEN IF NamedChain_from_str(to_lowercase(ChainId_deserialize(v).val.s)).tag = "Ok"
         THEN Ok(Named(NamedChain_from_str(to_lowercase(ChainId_deserialize(v).val.s)).val))
         ELSE Err([kind |-> "Custom", msg |-> "VariantNotFound"])
    ELSE IF NamedChain_try_from(ChainId_deserialize(v).val.id).tag = "Ok"
         THEN Ok(Named(NamedChain_try_from(ChainId_deserialize(v).val.id).val))
         ELSE Ok(Id(ChainId_deserialize(v).val.id))

----------------------------------------------------------------------------
(* Inputs *)

Min(a, b) == IF a <= b THEN a ELSE b

\* s with the letters at the positions in S made upper case
ReCase(s, S) == [i \in 1..Len(s) |-> IF i \in S THEN char_to_uppercase(s[i]) ELSE s[i]]

ReCasings(s) ==
    {ReCase(s, S) : S \in SUBSET (1..Min(Len(s), MaxCasePrefix))}
        \cup {ReCase(s, 1..Len(s))}

AllNames == UNION {NamedChain_names(c) : c \in NamedChains}

NameTexts == UNION {ReCasings(n) : n \in AllNames}

DigitStrings == UNION {[1..n -> Digits] : n \in 1..MaxDigits}

NumeralTexts ==
    DigitStrings \cup {<<"+">> \o d : d \in DigitStrings}
                 \cup {<<"-">> \o d : d \in DigitStrings}

OtherTexts ==
    { <<>>, <<"+">>, <<"-">>, <<"1", "a">>, <<" ", "1">>, <<"1", ".", "0">>,
      <<"m", "a", "i", "n">>,
      <<"n","o","t","-","a","-","c","h","a","i","n","-","!","!">> }

Texts == NameTexts \cup NumeralTexts \cup OtherTexts

SerializedValues ==
    {StrValue(t) : t \in Texts} \cup {U64Value(n) : n \in U64}
        \cup {I64Value(-1), BoolValue(TRUE)}

\* what a caller can hand to the operations
Inputs ==
    {[kind |-> "unit"]}
        \cup {[kind |-> "named", chain |-> c] : c \in NamedChains}
        \cup {[kind |-> "u64", n |-> n] : n \in U64}
        \cup {[kind |-> "u256", v |-> v] : v \in U256Values}
        \cup {[kind |-> "text", s |-> t] : t \in Texts}
        \cup {[kind |-> "serialized", value |-> v] : v \in SerializedValues}
        \cup {[kind |-> "chain", c |-> c] : c \in ChainValues}

NoChain == [via |-> "none"]

\* the operations that build a Chain from something else
ConstructionOps == {"default", "from_named", "from_u64", "from_u256", "from_str", "deserialize"}

----------------------------------------------------------------------------
(* The state: the input the caller holds, the last operation called with  *)
(* its argument and what it returned, and the Chain value the caller      *)
(* keeps, with the operation that produced it.                            *)

Call(op, arg, ret) == [op |-> op, arg |-> arg, ret |-> ret]

Init ==
    /\ input \in Inputs
    /\ call = Call("none", <<>>, <<>>)
    /\ kept = NoChain

Default ==
    /\ input.kind = "unit"
    /\ call' = Call("default", <<>>, Ok(default))
    /\ UNCHANGED <<input, kept>>

FromNamedChain ==
    /\ input.kind = "named"
    /\ call' = Call("from_named", input.chain, Ok(from_named(input.chain)))
    /\ UNCHANGED <<input, kept>>

\* Chain::from(n) for the n handed in, or for the id of the kept value
FromU64 ==
    \E n \in {i \in U64 : \/ input.kind = "u64" /\ i = input.n
                          \/ kept # NoChain /\ i = id(kept.val)} :
        /\ call' = Call("from_u64", n, Ok(from_u64(n)))
        /\ UNCHANGED <<input, kept>>

FromU256 ==
    /\ input.kind = "u256"
    /\ call' = Call("from_u256", input.v, from_u256(input.v))
    /\ UNCHANGED <<input, kept>>

FromStr ==
    /\ input.kind = "text"
    /\ call' = Call("from_str", input.s, from_str(input.s))
    /\ UNCHANGED <<input, kept>>

Deserialize ==
    /\ input.kind = "serialized"
    /\ call' = Call("deserialize", input.value, deserialize(input.value))
    /\ UNCHANGED <<input, kept>>

\* the enum's variants are public: Chain::Named(c), Chain::Id(n)
Variant ==
    /\ input.kind = "chain"
    /\ kept' = [via |-> "variant", val |-> input.c]
    /\ UNCHANGED <<input, call>>

\* Chain is Copy: the caller keeps the value just constructed
Keep ==
    /\ call.op \in ConstructionOps
    /\ call.ret.tag = "Ok"
    /\ kept' = [via |-> call.op, val |-> call.ret.val]
    /\ UNCHANGED <<input, call>>

GetId ==
    /\ kept # NoChain
    /\ call' = Call("id", kept.val, id(kept.val))
    /\ UNCHANGED <<input, kept>>

GetNamed ==
    /\ kept # NoChain
    /\ call' = Call("named", kept.val, named(kept.val))
    /\ UNCHANGED <<input, kept>>

IsLegacy ==
    /\ kept # NoChain
    /\ call' = Call("is_legacy", kept.val, is_legacy(kept.val))
    /\ UNCHANGED <<input, kept>>

EtherscanUrls ==
    /\ kept # NoChain
    /\ call' = Call("etherscan_urls", kept.val, etherscan_urls(kept.val))
    /\ UNCHANGED <<input, kept>>

Fmt ==
    /\ kept # NoChain
    /\ call' = Call("fmt", kept.val, fmt(kept.val))
    /\ UNCHANGED <<input, kept>>

IntoU64 ==
    /\ kept # NoChain
    /\ call' = Call("into_u64", kept.val, into_u64(kept.val))
    /\ UNCHANGED <<input, kept>>

IntoU256 ==
    /\ kept # NoChain
    /\ call' = Call("into_u256", kept.val, into_u256(kept.val))
    /\ UNCHANGED <<input, kept>>

TryIntoNamed ==
    /\ kept # NoChain
    /\ call' = Call("try_into_named", kept.val, try_into_named(kept.val))
    /\ UNCHANGED <<input, kept>>

Serialize ==
    /\ kept # NoChain
    /\ call' = Call("serialize", kept.val, serialize(kept.val))
    /\ UNCHANGED <<input, kept>>

Next ==
    \/ Default
    \/ FromNamedChain
    \/ FromU64
    \/ FromU256
    \/ FromStr
    \/ Deserialize
    \/ Variant
    \/ Keep
    \/ GetId
    \/ GetNamed
    \/ IsLegacy
    \/ EtherscanUrls
    \/ Fmt
    \/ IntoU64
    \/ IntoU256
    \/ TryIntoNamed
    \/ Serialize

Spec == Init /\ [][Next]_vars

----------------------------------------------------------------------------
(* Vocabulary of the properties *)

\* the registry recognizes the id
Recognized(n) == \E c \in NamedChains : as_u64(c) = n

symbol_for(n) == CHOOSE c \in NamedChains : as_u64(c) = n

\* canonical form: no Id whose id the registry recognizes
Canonical(c) == ~(c.tag = "Id" /\ Recognized(c.id))

Constructed == call.op \in ConstructionOps /\ call.ret.tag = "Ok"

\* the value kept came from one of the construction operations
KeptConstructed == kept # NoChain /\ kept.via \in ConstructionOps

\* an Id the registry does not recognize
Unknown(c) == c.tag = "Id" /\ ~Recognized(c.id)

\* the symbol a value with a recognized id stands for
SymbolOf(c) == IF c.tag = "Named" THEN c.chain ELSE symbol_for(c.id)

IsDigits(s) == Len(s) > 0 /\ \A i \in 1..Len(s) : s[i] \in Digits

StripPlus(s) == IF Len(s) > 0 /\ s[1] = "+" THEN Tail(s) ELSE s

RECURSIVE StripZeros(_)
StripZeros(s) == IF Len(s) > 1 /\ s[1] = "0" THEN StripZeros(Tail(s)) ELSE s

\* t is a non-negative base-10 integer literal whose value is n
LiteralOf(t, n) == IsDigits(StripPlus(t)) /\ StripZeros(StripPlus(t)) = u64_fmt(n)

\* t is such a literal and its value fits the u64
IsU64Literal(t) == \E n \in U64 : LiteralOf(t, n)

\* t is, letter for letter, a name the registry knows
IsKnownName(t) == t \in AllNames

\* t is a name of the registry in some letter case
IsReCasedName(t) == to_lowercase(t) \in AllNames

NamedByName(t) == CHOOSE c \in NamedChains : to_lowercase(t) \in NamedChain_names(c)

----------------------------------------------------------------------------
(* C1 *)

\* C1: whatever from_u64, from_u256, from_str or deserialize returns is in
\* canonical form (never Id(n) with n recognized by the registry), and a
\* recognized id handed to one of them, also as a base-10 literal given to
\* from_str, comes back as Named(symbol_for(id)).
C1_CanonicalOnEveryPath ==
    (call.op \in {"from_u64", "from_u256", "from_str", "deserialize"} /\ call.ret.tag = "Ok")
        => /\ Canonical(call.ret.val)
           /\ \A n \in U64 :
                (Recognized(n) /\ call.op = "from_str" /\ LiteralOf(call.arg, n))
                    => call.ret.val = Named(symbol_for(n))

----------------------------------------------------------------------------
(* C2 *)

\* C2: two values obtained from the construction operations are equal
\* exactly when their ids are equal.
C2_EqualityAgreesWithId ==
    (Constructed /\ KeptConstructed)
        => (eq(kept.val, call.ret.val) <=> id(kept.val) = id(call.ret.val))

----------------------------------------------------------------------------
(* C3 *)

\* C3 as stated: for every Chain value x, Id(n) with a recognized n included,
\* deserialize(serialize(x)) = Ok(x); serialize gives a string for Named and
\* the unsigned integer for Id.
C3_SerializeRoundTripAll ==
    call.op = "serialize"
        => /\ deserialize(call.ret) = Ok(call.arg)
           /\ call.arg.tag = "Named" => call.ret.kind = "str"
           /\ call.arg.tag = "Id" => call.ret = U64Value(call.arg.id)

\* C3 amended: for every Chain value x in canonical form,
\* deserialize(serialize(x)) = Ok(x); for every x, serialize gives a lower-case
\* string for Named and the unsigned integer for Id.
C3_SerializeRoundTripCanonical ==
    call.op = "serialize"
        => /\ Canonical(call.arg) => deserialize(call.ret) = Ok(call.arg)
           /\ call.arg.tag = "Named"
                => call.ret.kind = "str" /\ call.ret.s = to_lowercase(call.ret.s)
           /\ call.arg.tag = "Id" => call.ret = U64Value(call.arg.id)

C3_Witness ==
    /\ call.op = "serialize"
    /\ Unknown(call.arg)
    /\ call.ret.kind = "u64"
    /\ deserialize(call.ret) = Ok(call.arg)

----------------------------------------------------------------------------
(* C4 *)

\* C4 as stated: for every serialized scalar x that deserialize accepts,
\* serialize(deserialize(x)) = x.
C4_DeserializeRoundTripAll ==
    (call.op = "deserialize" /\ call.ret.tag = "Ok")
        => serialize(call.ret.val) = call.arg

\* x is the display name of a chain, or an unsigned integer the registry
\* does not recognize
CanonicalScalar(x) ==
    \/ x.kind = "str" /\ \E c \in NamedChains : x.s = NamedChain_fmt(c)
    \/ x.kind = "u64" /\ ~Recognized(x.n)

\* C4 amended: for every accepted x that is the display name of a chain or
\* an unsigned integer the registry does not recognize,
\* serialize(deserialize(x)) = x; for every accepted x, serializing the
\* decoded value and decoding again gives the decoded value.
C4_DeserializeRoundTripCanonical ==
    (call.op = "deserialize" /\ call.ret.tag = "Ok")
        => /\ CanonicalScalar(call.arg) => serialize(call.ret.val) = call.arg
           /\ deserialize(serialize(call.ret.val)) = call.ret

C4_Witness ==
    /\ call.op = "deserialize"
    /\ call.ret.tag = "Ok"
    /\ call.arg.kind = "u64"
    /\ CanonicalScalar(call.arg)
    /\ serialize(call.ret.val) = call.arg

----------------------------------------------------------------------------
(* C5 *)

\* C5: from_str accepts a name of the registry in every letter case and
\* returns the Named value of that chain.
C5_ParseCaseInsensitive ==
    (call.op = "from_str" /\ IsReCasedName(call.arg))
        => call.ret = Ok(Named(NamedByName(call.arg)))

----------------------------------------------------------------------------
(* C6 *)

\* C6: for every Chain value x in canonical form, from_str(fmt(x)) = Ok(x).
C6_ParseFormatRoundTrip ==
    (call.op = "fmt" /\ Canonical(call.arg))
        => from_str(call.ret) = Ok(call.arg)

C6_Witness ==
    /\ call.op = "fmt"
    /\ Unknown(call.arg)
    /\ IsDigits(call.ret)
    /\ from_str(call.ret) = Ok(call.arg)

----------------------------------------------------------------------------
(* C7 *)

\* C7: from_u256 returns for every wide value, and what it returns is
\* from_u64 of the value's low 64 bits.
C7_WideTruncates ==
    call.op = "from_u256"
        => call.ret = Ok(from_u64(call.arg % (U64Max + 1)))

----------------------------------------------------------------------------
(* C8 *)

----------------------------------------------------------------------------
(* C9 *)

\* C9: named fails, with the id, exactly for an Id the registry does not
\* recognize; for such a value is_legacy is FALSE and etherscan_urls is None;
\* for every other value both give the registry's answer for the symbol;
\* id and fmt return for every value.
C9_UnknownTolerated ==
    /\ call.op = "named"
        => /\ call.ret.tag \in {"Ok", "Err"}
           /\ call.ret.tag = "Err" <=> Unknown(call.arg)
           /\ call.ret.tag = "Err"
                => call.ret.err = [kind |-> "UnsupportedChain", id |-> call.arg.id]
           /\ call.ret.tag = "Ok" => call.ret.val = SymbolOf(call.arg)
    /\ call.op = "is_legacy"
        => call.ret = IF Unknown(call.arg) THEN FALSE
                      ELSE NamedChain_is_legacy(SymbolOf(call.arg))
    /\ call.op = "etherscan_urls"
        => call.ret = IF Unknown(call.arg) THEN None
                      ELSE NamedChain_etherscan_urls(SymbolOf(call.arg))
    /\ call.op = "id" => call.ret \in U64
    /\ call.op = "fmt" => Len(call.ret) > 0

C9_Witness ==
    /\ call.op = "is_legacy"
    /\ Unknown(call.arg)
    /\ named(call.arg).tag = "Err"
    /\ call.ret = FALSE

----------------------------------------------------------------------------
(* C10 *)

\* C10: fmt depends only on the id: fmt(x) = fmt(from_u64(id(x))) for every
\* value x, Id(n) with a recognized n included; it is the display name of the
\* chain when the id is recognized and the decimal numeral otherwise.
C10_FormatByIdOnly ==
    call.op = "fmt"
        => /\ call.ret = fmt(from_u64(id(call.arg)))
           /\ Recognized(id(call.arg))
                => call.ret = NamedChain_fmt(symbol_for(id(call.arg)))
           /\ ~Recognized(id(call.arg)) => call.ret = u64_fmt(id(call.arg))

C10_Witness ==
    /\ call.op = "fmt"
    /\ ~Canonical(call.arg)
    /\ call.ret = NamedChain_fmt(symbol_for(call.arg.id))

====
